---- MODULE Spec2Model ----
(***************************************************************************)
(* Model of occams_forms/renderers.py: the workflow transition table, the  *)
(* entity serializer entity_data and the binder apply_data, including the  *)
(* attachment write path (makedirs, temp file, flush, fsync, rename), and  *)
(* the form builders make_field, render_field, make_form and validate.     *)
(*                                                                         *)
(* One entity is bound to a schema whose leaves are, in iterleafs order,   *)
(* a string "n" and a blob "g" inside section "s", then a top-level blob   *)
(* "f" and a top-level string "a".  A value is a record [t, v]: None, a scalar, *)
(* a BlobInfo (v = the uuid of its storage path) or an uploaded            *)
(* cgi.FieldStorage.  Submitted records are functions whose DOMAIN is the  *)
(* set of keys of the Python dict.                                         *)
(***************************************************************************)
EXTENDS Integers, Sequences, FiniteSets, TLC

\* ---------------------------------------------------------------- bounds
\* uuid4 values drawn over the run (each upload takes a fresh one)
MaxUuid == 2
\* number of 2<<16 byte chunks an uploaded stream is read in
MaxChunks == 2

\* ---------------------------------------------------------------- states
PENDING_ENTRY == "pending-entry"
PENDING_REVIEW == "pending-review"
PENDING_CORRECTION == "pending-correction"
COMPLETE == "complete"

\* "entity.state and entity.state.name" of an entity that was never saved
NoState == "None"

states == {PENDING_ENTRY, PENDING_REVIEW, PENDING_CORRECTION, COMPLETE}

TRANSITIONS ==
  [s \in states |->
     CASE s = PENDING_ENTRY -> <<PENDING_REVIEW>>
       [] s = PENDING_REVIEW -> <<PENDING_CORRECTION, COMPLETE>>
       [] s = PENDING_CORRECTION -> <<PENDING_REVIEW>>
       [] s = COMPLETE -> <<>>]

Range(seq) == {seq[i] : i \in DOMAIN seq}

\* ---------------------------------------------------------------- values
NoneV == [t |-> "none", v |-> 0]
Scalar(n) == [t |-> "val", v |-> n]
\* datastore.BlobInfo(original_name, dest_path, mime_type); v is the uuid
\* the storage path was generated from
BlobInfo(u) == [t |-> "blob", v |-> u]
\* an uploaded cgi.FieldStorage
FieldStorage == [t |-> "upload", v |-> 0]

\* bytes of an uploaded stream, one element per chunk read
Content == [i \in 1..MaxChunks |-> i]

\* dest_path of a generated uuid
Dest(u) == <<"dest", u>>

\* variant: the temporary path is the destination path itself
Temp_without_suffix(u) == <<"dest", u>>

\* temp_dest_path = dest_path + '~'
Temp(u) == <<"temp", u>>

\* ---------------------------------------------------------------- schema
\* entity.schema.iterleafs(): the leaves in visiting order
iterleafs ==
  << [name |-> "n", type |-> "string", parent_attribute |-> "s"],
     [name |-> "g", type |-> "blob", parent_attribute |-> "s"],
     [name |-> "f", type |-> "blob", parent_attribute |-> "None"],
     [name |-> "a", type |-> "string", parent_attribute |-> "None"] >>

LeafNames == {iterleafs[i].name : i \in DOMAIN iterleafs}

\* publish_date of the Schema rows stored under the entity's schema name
SchemaRows == {1, 2}
\* a publish date no stored row of the schema's name has
MissingVersion == {3}
\* str(publish_date)
Str(p) == <<"iso", p>>
\* the collect date a record carries; 0 is the None of a new entity
Dates == {1}

\* session.query(Schema).filter_by(name=..., publish_date=version): the
\* rows whose publish date the version string denotes
SchemaQuery(version) == {p \in SchemaRows : Str(p) = version}

\* ---------------------------------------------------------------- records
WorkflowParts ==
  {<<>>} \cup {("ofworkflow_" :> [state |-> s]) : s \in states}

MetadataParts ==
  {<<>>} \cup
  {("ofmetadata_" :> [not_done |-> nd, collect_date |-> cd, version |-> Str(1)]) :
      nd \in BOOLEAN, cd \in Dates}
  \cup
  {("ofmetadata_" :> [not_done |-> FALSE, collect_date |-> cd, version |-> Str(p)]) :
      cd \in Dates, p \in (SchemaRows \ {1}) \cup MissingVersion}

\* the leaf part of the records callers submit
\*   a patch with no key at all
EmptyRecord == <<>>
\*   every field filled in, the upload field left empty
FullRecord == ("s" :> ("n" :> Scalar(1))) @@ ("f" :> NoneV) @@ ("a" :> Scalar(1))
\*   every field filled in, with an upload for "f"
UploadRecord == ("s" :> ("n" :> Scalar(1))) @@ ("f" :> FieldStorage) @@ ("a" :> Scalar(1))
\*   a patch of "a" alone, the section sub-record present and empty
PatchRecord == ("s" :> <<>>) @@ ("a" :> Scalar(1))
\*   an upload for the blob nested in the section
NestedUploadRecord == ("s" :> (("n" :> Scalar(1)) @@ ("g" :> FieldStorage))) @@ ("a" :> Scalar(1))

LeafRecords ==
  {EmptyRecord, FullRecord, UploadRecord, PatchRecord, NestedUploadRecord}

\* the upload_path argument: a directory, or None
UploadDir == "/uploads"
NoPath == "None"

VARIABLES
  state,         \* entity.state.name, or NoState
  not_done,      \* entity.not_done
  collect_date,  \* entity.collect_date
  schema,        \* publish_date of entity.schema
  values,        \* entity[name] for every leaf name
  fs,            \* the files that exist: path -> bytes visible in the file
  synced,        \* the paths whose visible bytes were forced to disk
  used,          \* number of uuids generated so far
  pc,            \* position of the running apply_data call, or "idle"
  cur,           \* index in iterleafs of the blob being stored
  buf,           \* bytes written to output_file and not yet flushed
  data,          \* the record passed to the last apply_data call
  previous_state, \* entity.state.name when that call began
  op,            \* who built that record: "apply" or "roundtrip"
  upload_path,   \* the upload_path passed to that call, or NoPath
  form,          \* the last call of the form builder: its inputs and result
  result         \* how the last call ended: "ok" or the exception raised

vars == <<state, not_done, collect_date, schema, values, fs, synced,
          used, pc, cur, buf, data, previous_state, op, upload_path, form,
          result>>

entity == <<state, not_done, collect_date, schema, values>>

Init ==
  /\ state \in {NoState, PENDING_ENTRY}
  /\ not_done = FALSE
  /\ collect_date = 0
  /\ schema = 1
  /\ values = [n \in LeafNames |-> NoneV]
  /\ fs = <<>>
  /\ synced = {}
  /\ used = 0
  /\ pc = "idle"
  /\ cur = 0
  /\ buf = <<>>
  /\ data = <<>>
  /\ previous_state = state
  /\ op = "init"
  /\ upload_path = UploadDir
  /\ form = [fn |-> "init"]
  /\ result = "ok"

\* ---------------------------------------------------------------- entity_data
entity_data ==
  ("ofmetadata_" :> [state |-> state, not_done |-> not_done,
                     collect_date |-> collect_date, version |-> Str(schema)])
  @@ ("f" :> values["f"]) @@ ("a" :> values["a"])
  @@ ("s" :> (("n" :> values["n"]) @@ ("g" :> values["g"])))

\* ---------------------------------------------------------------- apply_data
\* os.unlink(path)
Unlink(files, path) == [p \in DOMAIN files \ {path} |-> files[p]]

Raise(vals, files, exc) == [values |-> vals, fs |-> files, result |-> exc, at |-> 0]

\* The loop over entity.schema.iterleafs() from leaf i on.  rebound says
\* that the name "data" was rebound to the last chunk read from an upload
\* (the empty string); py is the Python major version.  The loop stops with
\* result "upload" at a leaf whose upload has to be stored.
RECURSIVE LeafLoop(_, _, _, _, _, _, _)
LeafLoop(i, vals, files, dat, rebound, clear_data, py) ==
  IF i > Len(iterleafs) THEN Raise(vals, files, "ok")
  ELSE
    LET attribute == iterleafs[i]
        nested == attribute.parent_attribute # "None"
    IN
    IF clear_data
    THEN LeafLoop(i + 1, [vals EXCEPT ![attribute.name] = NoneV], files,
                  dat, rebound, clear_data, py)
    ELSE IF nested /\ rebound THEN Raise(vals, files, "TypeError")
    ELSE IF nested /\ attribute.parent_attribute \notin DOMAIN dat
    THEN Raise(vals, files, "KeyError")
    ELSE IF rebound /\ py = 3 THEN Raise(vals, files, "TypeError")
    ELSE
      LET parent == IF nested THEN dat[attribute.parent_attribute] ELSE dat
          present == (~rebound) /\ attribute.name \in DOMAIN parent
      IN
      IF ~present
      THEN LeafLoop(i + 1, vals, files, dat, rebound, clear_data, py)
      ELSE IF attribute.type = "blob"
      THEN
        IF attribute.name \notin DOMAIN dat THEN Raise(vals, files, "KeyError")
        ELSE IF dat[attribute.name] = FieldStorage
        THEN [values |-> vals, fs |-> files, result |-> "upload", at |-> i]
        ELSE IF vals[attribute.name].t = "blob"
        THEN
          IF Dest(vals[attribute.name].v) \notin DOMAIN files
          THEN Raise(vals, files, "OSError")
          ELSE LeafLoop(i + 1, [vals EXCEPT ![attribute.name] = NoneV],
                        Unlink(files, Dest(vals[attribute.name].v)),
                        dat, rebound, clear_data, py)
        ELSE LeafLoop(i + 1, [vals EXCEPT ![attribute.name] = NoneV], files,
                      dat, rebound, clear_data, py)
      ELSE LeafLoop(i + 1, [vals EXCEPT ![attribute.name] = parent[attribute.name]],
                    files, dat, rebound, clear_data, py)

\* variant: the workflow block is ignored
next_state_ignores_workflow(d) == PENDING_REVIEW

next_state(d) ==
  IF "ofworkflow_" \in DOMAIN d THEN d["ofworkflow_"].state ELSE PENDING_REVIEW

\* variant: the read-only check comes before the reassignment
Reassign_after_readonly(previous, nxt) ==
  IF previous = COMPLETE THEN previous
  ELSE IF previous # nxt THEN nxt ELSE previous

\* entity.state after "if previous_state != next_state: entity.state = ..."
Reassign(previous, nxt) == IF previous # nxt THEN nxt ELSE previous

\* variant: no read-only check
ReadOnly_never(previous, current) == FALSE

\* variant: the check looks at the reassigned state
ReadOnly_checks_current(previous, current) == current = COMPLETE

\* "if previous_state == states.COMPLETE: return entity", evaluated after
\* the reassignment left the entity in state current
ReadOnly(previous, current) == previous = COMPLETE

\* variant: not_done is always taken from the metadata block
NotDone_from_block(d, nxt, nd) ==
  IF "ofmetadata_" \notin DOMAIN d THEN nd ELSE d["ofmetadata_"].not_done

\* entity.not_done after the metadata block was applied
NotDone(d, nxt, nd) ==
  IF "ofmetadata_" \notin DOMAIN d THEN nd
  ELSE IF nxt = PENDING_ENTRY THEN FALSE
  ELSE d["ofmetadata_"].not_done

\* variant: not_done does not clear
clear_data_ignores_not_done(nd, nxt) == nxt = PENDING_ENTRY

\* clear_data = entity.not_done or next_state == states.PENDING_ENTRY
clear_data(nd, nxt) == nd \/ nxt = PENDING_ENTRY

\* the end of a call, or its arrival at an upload that has to be stored
Settle(r) ==
  /\ values' = r.values
  /\ fs' = r.fs
  /\ synced' = synced \cap DOMAIN r.fs
  /\ IF r.result = "upload"
     THEN /\ pc' = "makedirs"
          /\ cur' = r.at
          /\ used' = used + 1
          /\ result' = "running"
     ELSE /\ pc' = "idle"
          /\ cur' = 0
          /\ used' = used
          /\ result' = r.result

\* variant: the destination path is not checked
Precondition_unchecked(path) == TRUE

\* assert upload_path is not None, u'Destination path is required'
Precondition(path) == path # NoPath

\* apply_data(session, entity, data, upload_path) up to its return, its
\* exception, or the first upload it has to store
apply_data(d, who, path) ==
  /\ pc = "idle"
  /\ data' = d
  /\ op' = who
  /\ upload_path' = path
  /\ previous_state' = state
  /\ UNCHANGED form
  /\ IF ~Precondition(path)
     THEN /\ result' = "AssertionError"
          /\ UNCHANGED <<state, not_done, collect_date, schema, values, fs,
                         synced, used, pc, cur, buf>>
     ELSE
     /\ state' = Reassign(state, next_state(d))
     /\ IF ReadOnly(state, Reassign(state, next_state(d)))
        THEN /\ result' = "ok"
             /\ UNCHANGED <<not_done, collect_date, schema, values, fs, synced,
                            used, pc, cur, buf>>
        ELSE
          LET has_metadata == "ofmetadata_" \in DOMAIN d
              metadata == d["ofmetadata_"]
              nd == NotDone(d, next_state(d), not_done)
              found == IF has_metadata THEN SchemaQuery(metadata.version) ELSE {schema}
          IN
          /\ not_done' = nd
          /\ collect_date' = IF has_metadata THEN metadata.collect_date ELSE collect_date
          /\ UNCHANGED buf
          /\ IF found = {}
             THEN /\ result' = "NoResultFound"
                  /\ UNCHANGED <<schema, values, fs, synced, used, pc, cur>>
             ELSE /\ schema' = CHOOSE p \in found : TRUE
                  /\ Settle(LeafLoop(1, values, fs, d, FALSE,
                                     clear_data(nd, next_state(d)), 2))

\* isinstance(part[name], cgi.FieldStorage) of a key that may be missing
IsUpload(part, name) ==
  IF name \in DOMAIN part THEN part[name] = FieldStorage ELSE FALSE

\* a caller applies a submitted record
Apply ==
  \E w \in WorkflowParts, m \in MetadataParts, l \in LeafRecords :
    /\ IF IsUpload(l, "f") THEN used < MaxUuid ELSE TRUE
    /\ apply_data(w @@ m @@ l, "apply", UploadDir)

\* a caller applies a record with an upload, a new version and any workflow
\* block, and passes no upload_path
ApplyWithoutPath ==
  \E w \in WorkflowParts :
    apply_data(w @@ ("ofmetadata_" :> [not_done |-> FALSE, collect_date |-> 1,
                                      version |-> Str(2)]) @@ UploadRecord,
               "apply", NoPath)

\* a caller applies the record entity_data made of the entity
RoundTrip == apply_data(entity_data, "roundtrip", UploadDir)

\* ---------------------------------------------------------------- blob store
uuid == used

\* os.makedirs(os.path.dirname(dest_path)): the intermediate directory
\* is new, or a path generated by this or another writer already made it
Makedirs ==
  /\ pc = "makedirs"
  /\ \E exists \in BOOLEAN :
       IF exists
       THEN /\ pc' = "idle"
            /\ result' = "OSError: File exists"
       ELSE /\ pc' = "open"
            /\ UNCHANGED result
  /\ UNCHANGED <<entity, fs, synced, used, cur, buf, data, previous_state, op, upload_path, form>>

\* variant: the replaced file is deleted before the new one is written
Open_unlinks_old ==
  /\ pc = "open"
  /\ fs' = (Temp(uuid) :> <<>>) @@
           (IF values[iterleafs[cur].name].t = "blob"
            THEN Unlink(fs, Dest(values[iterleafs[cur].name].v)) ELSE fs)
  /\ buf' = <<>>
  /\ pc' = "write"
  /\ UNCHANGED <<entity, synced, used, cur, data, previous_state, op, upload_path, form, result>>

\* output_file = open(temp_dest_path, 'wb'); input_file.seek(0)
Open ==
  /\ pc = "open"
  /\ fs' = (Temp(uuid) :> <<>>) @@ fs
  /\ buf' = <<>>
  /\ pc' = "write"
  /\ UNCHANGED <<entity, synced, used, cur, data, previous_state, op, upload_path, form, result>>

\* one round of the copy loop: read a chunk and write it to output_file,
\* whose buffer the runtime may hand to the file at any write
Write ==
  /\ pc = "write"
  /\ LET pos == Len(fs[Temp(uuid)]) + Len(buf) IN
     IF pos = Len(Content)
     THEN /\ pc' = "flush"
          /\ UNCHANGED <<fs, buf>>
     ELSE /\ pc' = "write"
          /\ \E through \in BOOLEAN :
               IF through
               THEN /\ fs' = [fs EXCEPT ![Temp(uuid)] = @ \o Append(buf, Content[pos + 1])]
                    /\ buf' = <<>>
               ELSE /\ buf' = Append(buf, Content[pos + 1])
                    /\ UNCHANGED fs
  /\ UNCHANGED <<entity, synced, used, cur, data, previous_state, op, upload_path, form, result>>

\* output_file.flush()
Flush ==
  /\ pc = "flush"
  /\ fs' = [fs EXCEPT ![Temp(uuid)] = @ \o buf]
  /\ buf' = <<>>
  /\ pc' = "fsync"
  /\ UNCHANGED <<entity, synced, used, cur, data, previous_state, op, upload_path, form, result>>

\* os.fsync(output_file.fileno())
Fsync ==
  /\ pc = "fsync"
  /\ synced' = synced \cup {Temp(uuid)}
  /\ pc' = "close"
  /\ UNCHANGED <<entity, fs, used, cur, buf, data, previous_state, op, upload_path, form, result>>

\* output_file.close()
Close ==
  /\ pc = "close"
  /\ fs' = [fs EXCEPT ![Temp(uuid)] = @ \o buf]
  /\ buf' = <<>>
  /\ pc' = "rename"
  /\ UNCHANGED <<entity, synced, used, cur, data, previous_state, op, upload_path, form, result>>

\* the path os.rename moves the temporary file to
RenameTarget(u) == Dest(u)

\* os.rename(temp_dest_path, dest_path)
Rename ==
  /\ pc = "rename"
  /\ fs' = (RenameTarget(uuid) :> fs[Temp(uuid)]) @@ Unlink(fs, Temp(uuid))
  /\ synced' = (synced \ {Temp(uuid)}) \cup
               (IF Temp(uuid) \in synced THEN {RenameTarget(uuid)} ELSE {})
  /\ pc' = "magic"
  /\ UNCHANGED <<entity, used, cur, buf, data, previous_state, op, upload_path, form, result>>

\* mime detection, BlobInfo, the unlink of the replaced file, the
\* assignment of the slot, and the rest of the leaf loop
Finish ==
  /\ pc = "magic"
  /\ LET name == iterleafs[cur].name
         old == values[name]
         files == IF old.t = "blob" THEN Unlink(fs, Dest(old.v)) ELSE fs
     IN
     IF old.t = "blob" /\ Dest(old.v) \notin DOMAIN fs
     THEN /\ result' = "OSError"
          /\ pc' = "idle"
          /\ cur' = 0
          /\ UNCHANGED <<values, fs, synced, used>>
     ELSE \E py \in {2, 3} :
            Settle(LeafLoop(cur + 1, [values EXCEPT ![name] = BlobInfo(uuid)],
                            files, data, TRUE, FALSE, py))
  /\ UNCHANGED <<state, not_done, collect_date, schema, buf, data, previous_state, op, upload_path, form>>

IOSteps == {"makedirs", "open", "write", "flush", "fsync", "close", "rename", "magic"}

\* a step of the attachment write fails or is interrupted: the exception
\* leaves apply_data and aborts the request, where the run ends
IOError ==
  /\ pc \in IOSteps
  /\ pc' = "aborted"
  /\ cur' = cur
  /\ result' = "IOError"
  /\ buf' = <<>>
  /\ UNCHANGED <<entity, fs, synced, used, data, previous_state, op, upload_path, form>>

Next ==
  \/ Apply
  \/ ApplyWithoutPath
  \/ RoundTrip
  \/ Makedirs
  \/ Open
  \/ Write
  \/ Flush
  \/ Fsync
  \/ Close
  \/ Rename
  \/ Finish
  \/ IOError

Spec == Init /\ [][Next]_vars

\* ---------------------------------------------------------------- forms
\* make_field, render_field, make_form and DatastoreForm.validate are
\* functions of their arguments and the stored Schema and State rows; the
\* variable form holds the arguments and the result of the last call.

\* largest value_min / value_max an attribute declares
MaxBound == 2
\* largest number of options a choice attribute has
MaxChoices == 12

\* None where the code holds an integer: value_min, value_max, a
\* validator's min or max, a keyword render_field did not set
NoneN == 0 - 100

\* class modes: AUTO, AVAILABLE, ALL = range(3)
AUTO == 0
AVAILABLE == 1
ALL == 2
modes == {AUTO, AVAILABLE, ALL}

\* the entity argument when make_form is called without an entity
NoEntity == "NoEntity"

\* attribute.iterchoices(): k options in the attribute's order; the codes
\* run against that order so that a re-sorted list differs
iterchoices(k) ==
  [i \in 1..k |-> [name |-> <<"c", k + 1 - i>>, title |-> <<"t", i>>]]

\* the attributes make_field is given: strings, numbers and choices, a
\* declared minimum never above the declared maximum
Attributes ==
  { [type |-> t, is_collection |-> c, is_required |-> r,
     value_min |-> lo, value_max |-> hi, nchoices |-> k] :
      t \in {"string", "number", "choice"}, c \in BOOLEAN, r \in BOOLEAN,
      lo \in {NoneN} \cup 0..MaxBound, hi \in {NoneN} \cup 0..MaxBound,
      k \in 0..MaxChoices }

WellFormed(attribute) ==
  /\ (attribute.value_min # NoneN /\ attribute.value_max # NoneN)
        => attribute.value_min <= attribute.value_max
  /\ attribute.type # "choice"
        => (~attribute.is_collection /\ attribute.nchoices = 0)

\* the truth value Python gives an optional integer
Truthy(x) == x # NoneN /\ x # 0

\* if attribute.value_min or attribute.value_max:
HasBounds(attribute) ==
  Truthy(attribute.value_min) \/ Truthy(attribute.value_max)

\* a wtforms validator object
Validator(kind, min, max, message) ==
  [kind |-> kind, min |-> min, max |-> max, message |-> message]

\* label.format(choice=c): u'{choice.title} - [ {choice.name} ]' for the
\* select widget, u'{choice.title}' otherwise
Label(attribute_widget, c) ==
  IF attribute_widget = "select" THEN <<c.title, c.name>> ELSE <<c.title>>

\* the option (u'', u'')
Blank == << <<>>, <<>> >>

\* variant: every long choice list gets the blank option
InsertBlank_for_collections(attribute_widget, is_collection) ==
  attribute_widget = "select"

\* if attribute_widget == 'select' and not attribute.is_collection:
InsertBlank(attribute_widget, is_collection) ==
  attribute_widget = "select" /\ ~is_collection

\* min=attribute.value_min if attribute.value_min is not None else -1
OrMinusOne(x) == IF x = NoneN THEN 0 - 1 ELSE x

make_field(attribute) ==
  LET choices == iterchoices(attribute.nchoices)
      attribute_widget == IF Len(choices) > 10 THEN "select" ELSE "None"
      listed == [i \in 1..Len(choices) |->
                   <<choices[i].name, Label(attribute_widget, choices[i])>>]
      kw_choices ==
        IF attribute.type # "choice" THEN <<>>
        ELSE IF InsertBlank(attribute_widget, attribute.is_collection)
             THEN <<Blank>> \o listed
             ELSE listed
      field_class ==
        CASE attribute.type = "string" -> "StringField"
          [] attribute.type = "number" -> "DecimalField"
          [] attribute.type = "choice" /\ attribute.is_collection -> "SelectMultipleField"
          [] OTHER -> "SelectField"
      presence ==
        IF attribute.is_required
        THEN <<Validator("InputRequired", NoneN, NoneN, "None")>>
        ELSE <<Validator("Optional", NoneN, NoneN, "None")>>
      exact == attribute.value_min = attribute.value_max
      string_length ==
        IF attribute.type = "string"
        THEN <<Validator("Length", OrMinusOne(attribute.value_min),
                         OrMinusOne(attribute.value_max),
                         IF exact THEN "Field must be %(min)s characters long."
                         ELSE "None")>>
        ELSE <<>>
      selected_or_range ==
        IF attribute.type = "choice" /\ attribute.is_collection
        THEN <<Validator("Length", OrMinusOne(attribute.value_min),
                         OrMinusOne(attribute.value_max),
                         IF exact THEN "Field must be %(min)s characters long."
                         ELSE IF attribute.value_min # NoneN /\ attribute.value_max = NoneN
                              THEN "Field must have at least %(min)s selected."
                         ELSE IF attribute.value_min = NoneN /\ attribute.value_max # NoneN
                              THEN "Field must have at most %(max)s selected."
                         ELSE "None")>>
        ELSE IF attribute.type = "number"
        THEN <<Validator("NumberRange", attribute.value_min, attribute.value_max,
                         IF exact THEN "Number must be %(min)s." ELSE "None")>>
        ELSE <<>>
      bounds == IF HasBounds(attribute) THEN string_length \o selected_or_range
                ELSE <<>>
  IN [field_class |-> field_class,
      widget |-> attribute_widget,
      choices |-> kw_choices,
      required |-> attribute.is_required,
      validators |-> presence \o bounds]

\* wtforms.validators.NumberRange(min, max) applied to the number x: a
\* bound that is None is not tested
NumberRangeAccepts(validator, x) ==
  /\ (validator.min # NoneN => x >= validator.min)
  /\ (validator.max # NoneN => x <= validator.max)

\* the field built for the attribute accepts the number x
Accepts(field, x) ==
  \A i \in DOMAIN field.validators :
    field.validators[i].kind = "NumberRange"
      => NumberRangeAccepts(field.validators[i], x)

\* "bound > -1" in render_field: None compares below every integer in
\* Python 2 and cannot be compared in Python 3
AboveMinusOne(bound, py) ==
  IF bound = NoneN THEN (IF py = 2 THEN "False" ELSE "TypeError")
  ELSE IF bound > 0 - 1 THEN "True" ELSE "False"

IsLength(validator) == validator.kind = "Length"
IsNumberRange(validator) == validator.kind = "NumberRange"

\* the keywords render_field passes to the field: NoneN is a keyword left
\* unset
render_field(field, py) ==
  LET lengths == SelectSeq(field.validators, IsLength)
      ranges == SelectSeq(field.validators, IsNumberRange)
      none == Validator("None", NoneN, NoneN, "None")
      length == IF lengths = <<>> THEN none ELSE lengths[Len(lengths)]
      range == IF ranges = <<>> THEN none ELSE ranges[Len(ranges)]
      raised == /\ ranges # <<>>
                /\ "TypeError" \in {AboveMinusOne(range.min, py),
                                    AboveMinusOne(range.max, py)}
  IN IF raised
     THEN [raised |-> "TypeError", required |-> FALSE, minlength |-> NoneN,
           maxlength |-> NoneN, min |-> NoneN, max |-> NoneN]
     ELSE [raised |-> "None",
           required |-> field.required,
           minlength |-> IF lengths # <<>> /\ length.min > 0 - 1
                         THEN length.min ELSE NoneN,
           maxlength |-> IF lengths # <<>> /\ length.max > 0 - 1
                         THEN length.max ELSE NoneN,
           min |-> IF ranges # <<>> /\ AboveMinusOne(range.min, py) = "True"
                   THEN range.min ELSE NoneN,
           max |-> IF ranges # <<>> /\ AboveMinusOne(range.max, py) = "True"
                   THEN range.min ELSE NoneN]

\* ---- make_form

\* the name of the schema passed to make_form, and of another schema
\* stored beside it
SchemaName == "A"
OtherName == "B"

\* the Schema table: a row for each publish date of the schema's name, the
\* dates in retracted with a retract_date, and rows of the other schema
\* under the dates the first has no row for
SchemaTable(retracted) ==
  {[name |-> SchemaName, publish_date |-> p, retracted |-> p \in retracted] :
      p \in SchemaRows}
  \cup
  {[name |-> OtherName, publish_date |-> p, retracted |-> FALSE] :
      p \in MissingVersion}

\* sorted(set(...)), and ORDER BY publish_date ASC
RECURSIVE sorted(_)
sorted(S) ==
  IF S = {} THEN <<>>
  ELSE LET least == CHOOSE x \in S : \A y \in S : x <= y
       IN <<least>> \o sorted(S \ {least})

\* variant: the query does not filter on retract_date
actual_versions_with_retracted(name, allowed_versions, retracted) ==
  LET dates == {r.publish_date : r \in
                   {r \in SchemaTable(retracted) :
                      r.name = name /\ r.publish_date \in allowed_versions}}
      rows == sorted(dates)
  IN [i \in 1..Len(rows) |-> <<Str(rows[i]), Str(rows[i])>>]

\* the publish dates of the rows of that name, among the allowed versions,
\* that are not retracted, ascending, as (str(p), str(p))
actual_versions(name, allowed_versions, retracted) ==
  LET dates == {r.publish_date : r \in
                   {r \in SchemaTable(retracted) :
                      /\ r.name = name
                      /\ r.publish_date \in allowed_versions
                      /\ ~r.retracted}}
      rows == sorted(dates)
  IN [i \in 1..Len(rows) |-> <<Str(rows[i]), Str(rows[i])>>]

\* the State table in title order
StateTable ==
  << [name |-> COMPLETE, title |-> "Complete"],
     [name |-> PENDING_CORRECTION, title |-> "Pending Correction"],
     [name |-> PENDING_ENTRY, title |-> "Pending Entry"],
     [name |-> PENDING_REVIEW, title |-> "Pending Review"] >>

\* try: entity.state.name; except AttributeError: states.PENDING_ENTRY
current_state(entity_state) ==
  IF entity_state \in {NoEntity, NoState} THEN PENDING_ENTRY ELSE entity_state

\* variant: available-only mode offers every state
allowed_states_unrestricted(transition, entity_state) ==
  IF transition \in {ALL, AVAILABLE} THEN states ELSE {}

allowed_states(transition, entity_state) ==
  IF transition = ALL THEN DOMAIN TRANSITIONS
  ELSE IF transition = AVAILABLE
       THEN Range(TRANSITIONS[current_state(entity_state)])
       ELSE {}

\* the lists the caller may pass as allowed_versions; None is the empty one
AllowedVersions ==
  LET dates == SchemaRows \cup MissingVersion
  IN {<<>>} \cup {<<p>> : p \in dates} \cup {<<p, q>> : p \in dates, q \in dates}

\* the submitted form data: no version key, or a version string
Formdata ==
  {<<>>} \cup
  {("ofmetadata_-version" :> Str(p)) : p \in SchemaRows \cup MissingVersion}

make_form(schema_arg, entity_state, formdata, show_metadata, transition, allowed_versions, retracted) ==
  LET override == show_metadata /\ "ofmetadata_-version" \in DOMAIN formdata
      found == IF override THEN SchemaQuery(formdata["ofmetadata_-version"])
               ELSE {}
      raised == override /\ found = {}
      publish_date == IF override /\ found # {}
                      THEN CHOOSE p \in found : TRUE ELSE schema_arg
      versions == IF show_metadata /\ ~raised
                  THEN actual_versions(SchemaName,
                         Range(allowed_versions) \cup {publish_date}, retracted)
                  ELSE <<>>
      allowed == allowed_states(transition, entity_state)
      rows == IF allowed = {} THEN <<>> ELSE
        LET Offered(row) == row.name \in allowed
        IN SelectSeq(StateTable, Offered)
      choices == <<<<"", "">>>> \o [i \in 1..Len(rows) |-> <<rows[i].name, rows[i].title>>]
  IN IF raised
     THEN [raised |-> "NoResultFound", schema |-> schema_arg,
           has_metadata |-> FALSE, version_choices |-> <<>>,
           has_workflow |-> FALSE, workflow_choices |-> <<>>]
     ELSE [raised |-> "None", schema |-> publish_date,
           has_metadata |-> show_metadata, version_choices |-> versions,
           has_workflow |-> allowed # {},
           workflow_choices |-> IF allowed # {} THEN choices ELSE <<>>]

\* ---- DatastoreForm.validate
\* variant: the presence of the metadata sub-form alone skips the fields
validate_skips_fields_with_metadata(entity_state, has_workflow, workflow_state, workflow_ok, has_metadata, md_not_done, metadata_ok, fields_ok) ==
  LET status == IF has_workflow THEN workflow_ok ELSE TRUE
      ran == IF has_workflow THEN {"ofworkflow_"} ELSE {}
      all == ran \cup {"fields"}
  IN IF has_workflow /\ workflow_state = PENDING_ENTRY
     THEN [raised |-> "None", status |-> status, ran |-> ran]
     ELSE IF entity_state = NoState
     THEN [raised |-> "AttributeError", status |-> FALSE, ran |-> ran]
     ELSE IF entity_state # NoEntity /\ entity_state = COMPLETE
     THEN [raised |-> "None", status |-> status, ran |-> ran]
     ELSE IF has_metadata
     THEN [raised |-> "None", status |-> status /\ metadata_ok,
           ran |-> IF status THEN ran \cup {"ofmetadata_"} ELSE ran]
     ELSE [raised |-> "None", status |-> status /\ fields_ok,
           ran |-> IF status THEN all ELSE ran]

\* has_workflow, has_metadata: 'ofworkflow_' / 'ofmetadata_' in self;
\* workflow_state: self.ofworkflow_.state.data; workflow_ok, metadata_ok,
\* fields_ok: what validating the sub-form or the attribute fields returns;
\* ran: the parts whose validate() was called
validate(entity_state, has_workflow, workflow_state, workflow_ok, has_metadata, md_not_done, metadata_ok, fields_ok) ==
  LET status == IF has_workflow THEN workflow_ok ELSE TRUE
      ran == IF has_workflow THEN {"ofworkflow_"} ELSE {}
      all == (IF has_workflow THEN {"ofworkflow_"} ELSE {})
             \cup (IF has_metadata THEN {"ofmetadata_"} ELSE {})
             \cup {"fields"}
      super == /\ (has_workflow => workflow_ok)
               /\ (has_metadata => metadata_ok)
               /\ fields_ok
  IN IF has_workflow /\ workflow_state = PENDING_ENTRY
     THEN [raised |-> "None", status |-> status, ran |-> ran]
     ELSE IF entity_state = NoState
     THEN [raised |-> "AttributeError", status |-> FALSE, ran |-> ran]
     ELSE IF entity_state # NoEntity /\ entity_state = COMPLETE
     THEN [raised |-> "None", status |-> status, ran |-> ran]
     ELSE IF has_metadata /\ md_not_done
     THEN [raised |-> "None", status |-> status /\ metadata_ok,
           ran |-> IF status THEN ran \cup {"ofmetadata_"} ELSE ran]
     ELSE [raised |-> "None", status |-> status /\ super,
           ran |-> IF status THEN all ELSE ran]

\* ---- render_form
\* the Python values the disabled flags are computed from: a bool, None,
\* or an object (the entity, its state row)
PyBool(b) == [t |-> "bool", v |-> b]
PyNone == [t |-> "none", v |-> FALSE]
PyObject == [t |-> "object", v |-> TRUE]

\* the truth value of a Python value
Truth(x) == IF x.t = "bool" THEN x.v ELSE x.t = "object"

\* x or y, x and y: the operand that decided, not its truth value
Or(x, y) == IF Truth(x) THEN x ELSE y
And(x, y) == IF Truth(x) THEN y ELSE x

\* variant: the flag is passed on as computed, not converted
Bool_unconverted(x) == x

\* bool(x)
Bool(x) == PyBool(Truth(x))

\* the entities render_form is given: None, or an entity with a state (or
\* none yet) and a not_done column that is True, False or still None
FormEntities ==
  {[present |-> FALSE, state |-> NoState, not_done |-> PyNone]}
  \cup
  {[present |-> TRUE, state |-> s, not_done |-> nd] :
      s \in {NoState} \cup states, nd \in {PyBool(TRUE), PyBool(FALSE), PyNone}}

render_form(e, disabled) ==
  LET entity_ == IF e.present THEN PyObject ELSE PyNone
      entity_state == IF e.state = NoState THEN PyNone ELSE PyObject
      metadata_disabled ==
        Bool(Or(PyBool(disabled),
                And(entity_, And(entity_state, PyBool(e.state = COMPLETE)))))
      fields_disabled ==
        Bool(Or(Or(PyBool(disabled), metadata_disabled),
                And(entity_, e.not_done)))
  IN [metadata_disabled |-> metadata_disabled,
      fields_disabled |-> fields_disabled,
      disabled |-> PyBool(disabled)]

\* ---- the calls
\* form starts as one call with its arguments; the step of that call
\* replaces it by the arguments and what the function returned
main == <<entity, fs, synced, used, pc, cur, buf, data, previous_state, op,
          upload_path, result>>

Entities == {NoEntity, NoState} \cup states

FieldCalls ==
  {[fn |-> "call", of |-> "make_field", attribute |-> attribute, x |-> x] :
      attribute \in {a \in Attributes : WellFormed(a)},
      x \in (0 - 1)..(MaxBound + 1)}

RenderCalls ==
  {[fn |-> "call", of |-> "render_field", attribute |-> attribute, py |-> py] :
      attribute \in {a \in Attributes : WellFormed(a)}, py \in {2, 3}}

FormCalls ==
  {[fn |-> "call", of |-> "make_form", schema_arg |-> schema_arg,
    entity |-> entity_state, formdata |-> formdata,
    show_metadata |-> show_metadata, transition |-> transition,
    allowed_versions |-> allowed_versions, retracted |-> retracted] :
      schema_arg \in SchemaRows, entity_state \in Entities,
      formdata \in Formdata, show_metadata \in BOOLEAN, transition \in modes,
      allowed_versions \in AllowedVersions, retracted \in SUBSET SchemaRows}

\* a form without a sub-form has no data or result for it, and a workflow
\* field left blank fails its InputRequired validator
ValidateCalls ==
  {c \in
     [fn : {"call"}, of : {"validate"}, entity : Entities,
      has_workflow : BOOLEAN, workflow_state : {""} \cup states,
      workflow_ok : BOOLEAN, has_metadata : BOOLEAN, not_done : BOOLEAN,
      metadata_ok : BOOLEAN, fields_ok : BOOLEAN] :
     /\ ~c.has_workflow => (c.workflow_state = "" /\ ~c.workflow_ok)
     /\ c.workflow_state = "" => ~c.workflow_ok
     /\ ~c.has_metadata => (~c.not_done /\ ~c.metadata_ok)}

RenderFormCalls ==
  {[fn |-> "call", of |-> "render_form", entity |-> e, disabled |-> disabled] :
      e \in FormEntities, disabled \in BOOLEAN}

InitForm ==
  /\ state = NoState
  /\ not_done = FALSE
  /\ collect_date = 0
  /\ schema = 1
  /\ values = [n \in LeafNames |-> NoneV]
  /\ fs = <<>>
  /\ synced = {}
  /\ used = 0
  /\ pc = "idle"
  /\ cur = 0
  /\ buf = <<>>
  /\ data = <<>>
  /\ previous_state = state
  /\ op = "init"
  /\ upload_path = UploadDir
  /\ form \in FieldCalls \cup RenderCalls \cup FormCalls \cup ValidateCalls
                \cup RenderFormCalls
  /\ result = "ok"

MakeField ==
  /\ form.fn = "call" /\ form.of = "make_field"
  /\ form' = [fn |-> "make_field", attribute |-> form.attribute,
              field |-> make_field(form.attribute), x |-> form.x,
              accepted |-> Accepts(make_field(form.attribute), form.x)]
  /\ UNCHANGED main

RenderField ==
  /\ form.fn = "call" /\ form.of = "render_field"
  /\ form' = [fn |-> "render_field", attribute |-> form.attribute,
              field |-> make_field(form.attribute), py |-> form.py,
              kw |-> render_field(make_field(form.attribute), form.py)]
  /\ UNCHANGED main

MakeForm ==
  /\ form.fn = "call" /\ form.of = "make_form"
  /\ form' = [fn |-> "make_form", schema_arg |-> form.schema_arg,
              entity |-> form.entity, formdata |-> form.formdata,
              show_metadata |-> form.show_metadata,
              transition |-> form.transition,
              allowed_versions |-> form.allowed_versions,
              retracted |-> form.retracted,
              out |-> make_form(form.schema_arg, form.entity, form.formdata,
                                form.show_metadata, form.transition,
                                form.allowed_versions, form.retracted)]
  /\ UNCHANGED main

Validate ==
  /\ form.fn = "call" /\ form.of = "validate"
  /\ form' = [fn |-> "validate", entity |-> form.entity,
              has_workflow |-> form.has_workflow,
              workflow_state |-> form.workflow_state,
              workflow_ok |-> form.workflow_ok,
              has_metadata |-> form.has_metadata,
              not_done |-> form.not_done,
              metadata_ok |-> form.metadata_ok,
              fields_ok |-> form.fields_ok,
              out |-> validate(form.entity, form.has_workflow,
                               form.workflow_state, form.workflow_ok,
                               form.has_metadata, form.not_done,
                               form.metadata_ok, form.fields_ok)]
  /\ UNCHANGED main

RenderForm ==
  /\ form.fn = "call" /\ form.of = "render_form"
  /\ form' = [fn |-> "render_form", entity |-> form.entity,
              disabled |-> form.disabled,
              out |-> render_form(form.entity, form.disabled)]
  /\ UNCHANGED main

NextForm ==
  \/ MakeField
  \/ RenderField
  \/ MakeForm
  \/ Validate
  \/ RenderForm

SpecForm == InitForm /\ [][NextForm]_vars

\* ======================================================================
\* Properties
\* ======================================================================

\* the state a record asks for: its workflow block's, else pending-review
RequestedState(d) ==
  IF "ofworkflow_" \in DOMAIN d THEN d["ofworkflow_"].state ELSE PENDING_REVIEW

\* s follows prev in the transition table (a never-saved entity counts as
\* pending-entry)
Edge(prev, s) ==
  s \in Range(TRANSITIONS[IF prev = NoState THEN PENDING_ENTRY ELSE prev])

ContentUnchanged ==
  /\ values' = values
  /\ not_done' = not_done
  /\ collect_date' = collect_date
  /\ schema' = schema

\* C1 as stated: every change of the entity's state made by apply_data is
\* an edge of TRANSITIONS.
C1_TableEnforced == [][state' = state \/ Edge(state, state')]_vars

\* C1 amended: the state after apply_data is the previous state or the
\* state the record asks for (its workflow block's state, pending-review
\* without one), whether or not that is an edge of TRANSITIONS.
C1_StateIsPreviousOrRequested ==
  [][state' = state \/ (pc = "idle" /\ state' = RequestedState(data'))]_vars

\* a call has moved the entity along a pair that is not in the table
C1_Witness ==
  /\ op = "apply"
  /\ state # previous_state
  /\ ~Edge(previous_state, state)

\* C2 as stated: once the entity is complete, apply_data never moves it to
\* another state and never changes its leaf values, not_done, collect_date
\* or schema.
C2_CompleteIsTerminal ==
  [][(pc = "idle" /\ state = COMPLETE) => (state' = COMPLETE /\ ContentUnchanged)]_vars

\* C2 amended: an apply_data call on a complete entity moves it to the
\* state the record asks for (so it stays complete only when that is
\* complete) and leaves its leaf values, not_done, collect_date and schema
\* unchanged.
C2_CompleteKeepsContent ==
  [][(pc = "idle" /\ state = COMPLETE /\ upload_path' # NoPath)
       => (state' = RequestedState(data') /\ ContentUnchanged)]_vars

\* a call has moved a complete entity out of complete and did not store the
\* value the record carried
C2_Witness ==
  /\ op = "apply"
  /\ pc = "idle"
  /\ previous_state = COMPLETE
  /\ state # COMPLETE
  /\ "a" \in DOMAIN data
  /\ values["a"] # data["a"]

\* C3: one apply_data call on an entity whose previous state is complete
\* returns at once: leaf values, not_done, collect_date and schema are
\* unchanged, no uuid is generated, and no file is written or deleted.
C3_CompleteIsReadOnly ==
  [][(pc = "idle" /\ state = COMPLETE /\ upload_path' # NoPath)
       => (ContentUnchanged /\ fs' = fs /\ synced' = synced /\ used' = used
           /\ pc' = "idle" /\ result' = "ok")]_vars

\* a record with an upload and a different value was applied to a complete
\* entity that holds an attachment: the file is still there, nothing stored
C3_Witness ==
  /\ op = "apply"
  /\ pc = "idle"
  /\ upload_path # NoPath
  /\ previous_state = COMPLETE
  /\ IsUpload(data, "f")
  /\ values["f"].t = "blob"
  /\ Dest(values["f"].v) \in DOMAIN fs
  /\ values["a"] # data["a"]

\* C4: after every apply_data call the entity's state is the workflow
\* block's state when the record has one and pending-review otherwise; the
\* reassignment precedes the read-only check, so this also holds for an
\* entity whose previous state is complete.
C4_StateReassignedFirst ==
  (op # "init" /\ upload_path # NoPath) => state = RequestedState(data)

\* a complete entity was saved without a workflow block and is now in
\* pending-review
C4_Witness ==
  /\ op = "apply"
  /\ previous_state = COMPLETE
  /\ "ofworkflow_" \notin DOMAIN data
  /\ state = PENDING_REVIEW

\* C5 as stated: applying entity_data(entity) to an entity that is neither
\* complete nor not_done completes and leaves every leaf value as it was.
C5_RoundTrip ==
  [][(pc = "idle" /\ op' = "roundtrip" /\ state # COMPLETE /\ ~not_done)
       => (pc' = "idle" /\ result' = "ok" /\ values' = values)]_vars

\* leaf i's key is missing from record d
Omitted(d, i) ==
  LET attribute == iterleafs[i] IN
  IF attribute.parent_attribute = "None" THEN attribute.name \notin DOMAIN d
  ELSE IF attribute.parent_attribute \notin DOMAIN d THEN TRUE
  ELSE attribute.name \notin DOMAIN d[attribute.parent_attribute]

\* C6 as stated: when clear_data is false, apply_data completes and leaves
\* the value (and the attachment file) of every leaf whose key the record
\* omits as it was.
C6_PatchSemantics ==
  [][(/\ pc = "idle"
      /\ pc' = "idle"
      /\ upload_path' # NoPath
      /\ state # COMPLETE
      /\ result' # "NoResultFound"
      /\ ~(not_done' \/ RequestedState(data') = PENDING_ENTRY)
      /\ \E i \in DOMAIN iterleafs : Omitted(data', i))
       => (/\ result' = "ok"
           /\ \A i \in DOMAIN iterleafs :
                Omitted(data', i) =>
                  /\ values'[iterleafs[i].name] = values[iterleafs[i].name]
                  /\ (values[iterleafs[i].name].t = "blob" =>
                        Dest(values[iterleafs[i].name].v) \in DOMAIN fs'))]_vars

\* C7: after apply_data returns for an entity whose previous state is not
\* complete and a record whose metadata block has not_done set, every leaf
\* of the entity is empty.
C7_NotDoneClears ==
  (/\ pc = "idle"
   /\ op # "init"
   /\ result = "ok"
   /\ previous_state # COMPLETE
   /\ "ofmetadata_" \in DOMAIN data
   /\ data["ofmetadata_"].not_done)
  => \A n \in LeafNames : values[n] = NoneV

\* a record with not_done set and a value for "a" was applied, without a
\* move to pending-entry, and "a" is empty
C7_Witness ==
  /\ pc = "idle"
  /\ op = "apply"
  /\ result = "ok"
  /\ previous_state # COMPLETE
  /\ "ofmetadata_" \in DOMAIN data
  /\ data["ofmetadata_"].not_done
  /\ RequestedState(data) # PENDING_ENTRY
  /\ "a" \in DOMAIN data
  /\ data["a"] = Scalar(1)
  /\ values["a"] = NoneV

\* C8: at every moment, also after an interruption at any step, a file at
\* a final destination path holds the complete uploaded content, forced to
\* disk before the rename that made it appear.
C8_AtomicWrite ==
  \A u \in 1..MaxUuid :
    Dest(u) \in DOMAIN fs => (fs[Dest(u)] = Content /\ Dest(u) \in synced)

\* a write was interrupted with part of the upload in the temporary file:
\* the destination does not exist, an earlier attachment is intact
C8_Witness ==
  /\ pc = "aborted"
  /\ uuid > 1
  /\ <<"temp", uuid>> \in DOMAIN fs
  /\ Len(fs[<<"temp", uuid>>]) < Len(Content)
  /\ Dest(uuid) \notin DOMAIN fs
  /\ Dest(1) \in DOMAIN fs

\* C9 as stated: after any sequence of apply_data calls every attachment
\* file at a final storage path is referenced by a slot of the entity.
C9_FilesAreOwned ==
  pc = "idle" =>
    \A u \in 1..used :
      Dest(u) \in DOMAIN fs => \E n \in LeafNames : values[n] = BlobInfo(u)

\* no destination file that exists is removed or changed by the step
DestFilesKept ==
  \A p \in DOMAIN fs : p[1] = "dest" => (p \in DOMAIN fs' /\ fs'[p] = fs[p])

\* C10: from the moment apply_data reaches an upload until the rename and
\* the mime detection have succeeded, no step touches the blob slot or an
\* existing destination file or draws another uuid; a failing step ends the
\* call with the exception.
C10_WriteFailureKeepsPrior ==
  [][((pc = "idle" /\ pc' = "makedirs") =>
        (values'[iterleafs[cur'].name] = values[iterleafs[cur'].name] /\ DestFilesKept))
     /\
     ((pc \in IOSteps /\ ~(pc = "magic" /\ pc' = "idle")) =>
        (/\ values' = values
         /\ DestFilesKept
         /\ used' = used
         /\ (pc' \in {"idle", "aborted"} => result' \in {"IOError", "OSError: File exists"})))]_vars

\* the write of a replacement failed after the temporary file was opened:
\* the slot holds the earlier descriptor and its file exists
C10_Witness ==
  /\ pc = "aborted"
  /\ result = "IOError"
  /\ values[iterleafs[cur].name].t = "blob"
  /\ values[iterleafs[cur].name].v < uuid
  /\ Dest(values[iterleafs[cur].name].v) \in DOMAIN fs
  /\ <<"temp", uuid>> \in DOMAIN fs

\* C15: apply_data called without an upload path raises the assertion
\* error before it reassigns the state, touches metadata or a leaf value,
\* draws a uuid or does any file I/O.
C15_MissingPathFailsFirst ==
  [][(pc = "idle" /\ upload_path' = NoPath)
       => (/\ result' = "AssertionError"
           /\ pc' = "idle"
           /\ state' = state
           /\ ContentUnchanged
           /\ fs' = fs /\ synced' = synced /\ used' = used)]_vars

\* a record with an upload, another version and another state was applied
\* without an upload path to an entity that is not read-only
C15_Witness ==
  /\ pc = "idle"
  /\ upload_path = NoPath
  /\ result = "AssertionError"
  /\ IsUpload(data, "f")
  /\ state \notin {COMPLETE, RequestedState(data)}
  /\ schema = 1
  /\ data["ofmetadata_"].version = Str(2)

\* C16 as stated: a writer that finds the intermediate directory of its
\* generated path already made treats that as success and completes its
\* write; no apply_data call fails because the directory exists.
C16_MakedirsToleratesRace ==
  [][pc = "makedirs" => result' # "OSError: File exists"]_vars

\* the value apply_data is to store for leaf i of record d, whose key is
\* present: the sub-record's value, a descriptor for an upload, None
\* for an upload field left empty
Submitted(d, i) ==
  LET attribute == iterleafs[i]
      x == IF attribute.parent_attribute = "None" THEN d[attribute.name]
           ELSE d[attribute.parent_attribute][attribute.name]
  IN x

\* C17 as stated: when clear_data is false and apply_data returns, every
\* leaf whose key is present in the submitted record holds the value from
\* the record (an attachment descriptor for an upload), also when an
\* earlier leaf of the same call was an upload.
C17_PresentKeysAreStored ==
  (/\ pc = "idle"
   /\ op = "apply"
   /\ upload_path # NoPath
   /\ result = "ok"
   /\ previous_state # COMPLETE
   /\ ~(not_done \/ RequestedState(data) = PENDING_ENTRY))
  => \A i \in DOMAIN iterleafs :
       ~Omitted(data, i) =>
         IF Submitted(data, i) = FieldStorage
         THEN values[iterleafs[i].name].t = "blob"
         ELSE values[iterleafs[i].name] = Submitted(data, i)

\* C18: after apply_data returns for an entity whose previous state is not
\* complete, every leaf is empty when not_done (as updated from the
\* metadata block) is set or next_state is pending-entry; and when the
\* workflow block selects pending-entry and the record has a metadata
\* block, not_done is false whatever that block's not_done says.
C18_PendingEntryClears ==
  (/\ pc = "idle"
   /\ op = "apply"
   /\ upload_path # NoPath
   /\ result = "ok"
   /\ previous_state # COMPLETE)
  => /\ (not_done \/ RequestedState(data) = PENDING_ENTRY)
          => \A n \in LeafNames : values[n] = NoneV
     /\ ("ofworkflow_" \in DOMAIN data /\ "ofmetadata_" \in DOMAIN data)
          => (data["ofworkflow_"].state = PENDING_ENTRY => ~not_done)

\* a record that selects pending-entry, sets not_done and carries a value
\* was applied: the value was not stored and not_done is false
C18_Witness ==
  /\ pc = "idle"
  /\ op = "apply"
  /\ upload_path # NoPath
  /\ result = "ok"
  /\ previous_state \notin {COMPLETE, PENDING_ENTRY}
  /\ "ofworkflow_" \in DOMAIN data
  /\ data["ofworkflow_"].state = PENDING_ENTRY
  /\ "ofmetadata_" \in DOMAIN data
  /\ data["ofmetadata_"].not_done
  /\ ~not_done
  /\ "a" \in DOMAIN data
  /\ data["a"] = Scalar(1)
  /\ values["a"] = NoneV

\* C11: in available-only mode the workflow choices make_form offers are
\* the blank option followed by exactly the successors of the entity's
\* current state: {pending-correction, complete} for pending-review,
\* {pending-review} for pending-entry, for pending-correction, and for no
\* entity or no prior state; for complete there is no workflow sub-form.
C11_AvailableChoices ==
  (form.fn = "make_form" /\ form.transition = AVAILABLE /\ form.out.raised = "None")
  => LET from == IF form.entity \in {NoEntity, NoState} THEN PENDING_ENTRY
                 ELSE form.entity
         successors ==
           CASE from = PENDING_REVIEW -> {PENDING_CORRECTION, COMPLETE}
             [] from \in {PENDING_ENTRY, PENDING_CORRECTION} -> {PENDING_REVIEW}
             [] from = COMPLETE -> {}
         choices == form.out.workflow_choices
     IN IF successors = {}
        THEN ~form.out.has_workflow /\ choices = <<>>
        ELSE /\ form.out.has_workflow
             /\ Len(choices) = 1 + Cardinality(successors)
             /\ choices[1] = <<"", "">>
             /\ {choices[i][1] : i \in 2..Len(choices)} = successors

\* make_form in available-only mode for an entity in pending-review
\* offered the blank option, complete and pending-correction
C11_Witness ==
  /\ form.fn = "make_form"
  /\ form.transition = AVAILABLE
  /\ form.entity = PENDING_REVIEW
  /\ form.out.raised = "None"
  /\ form.out.has_workflow
  /\ Len(form.out.workflow_choices) = 3

\* what the four rules give for the inputs of a validate call
RuleStatus(f) ==
  LET workflow == f.has_workflow => f.workflow_ok
  IN IF f.has_workflow /\ f.workflow_state = PENDING_ENTRY THEN workflow
     ELSE IF f.entity = COMPLETE THEN workflow
     ELSE IF f.has_metadata /\ f.not_done THEN workflow /\ f.metadata_ok
     ELSE workflow /\ (f.has_metadata => f.metadata_ok) /\ f.fields_ok

\* C12 as stated: validate returns the result the four rules give, taken
\* in order: the workflow result alone when the chosen state is
\* pending-entry; else the workflow result alone when the entity is
\* complete; else workflow and metadata, the attribute fields not
\* validated, when not_done is set; else workflow, metadata and fields.
C12_ValidationOrder ==
  form.fn = "validate"
  => /\ form.out.raised = "None"
     /\ form.out.status = RuleStatus(form)
     /\ (\/ (form.has_workflow /\ form.workflow_state = PENDING_ENTRY)
         \/ form.entity = COMPLETE
         \/ (form.has_metadata /\ form.not_done))
          => "fields" \notin form.out.ran
     /\ (\/ (form.has_workflow /\ form.workflow_state = PENDING_ENTRY)
         \/ form.entity = COMPLETE)
          => "ofmetadata_" \notin form.out.ran

\* C13 as stated: for a number attribute with value_min and value_max both
\* present and unequal, the field's NumberRange validator has max =
\* value_max, a value above value_max is rejected, and the max keyword
\* render_field emits is value_max.
C13_UpperBoundIsDeclaredMax ==
  (/\ form.fn \in {"make_field", "render_field"}
   /\ form.attribute.type = "number"
   /\ form.attribute.value_min # NoneN
   /\ form.attribute.value_max # NoneN
   /\ form.attribute.value_min # form.attribute.value_max)
  => /\ \E i \in DOMAIN form.field.validators :
          /\ form.field.validators[i].kind = "NumberRange"
          /\ form.field.validators[i].max = form.attribute.value_max
     /\ (form.fn = "make_field" /\ form.x > form.attribute.value_max)
          => ~form.accepted
     /\ form.fn = "render_field"
          => (form.kw.raised = "None" /\ form.kw.max = form.attribute.value_max)

\* C14: the version choices make_form builds are, in ascending order and
\* without duplicates, the publish dates among the allowed versions and the
\* current schema's version that have a non-retracted row of the schema's
\* name; no retracted version is among them.
C14_VersionChoices ==
  (form.fn = "make_form" /\ form.show_metadata /\ form.out.raised = "None")
  => LET current ==
           IF "ofmetadata_-version" \in DOMAIN form.formdata
           THEN CHOOSE p \in SchemaRows :
                  Str(p) = form.formdata["ofmetadata_-version"]
           ELSE form.schema_arg
         wanted == {p \in Range(form.allowed_versions) \cup {current} :
                      p \in SchemaRows /\ p \notin form.retracted}
         choices == form.out.version_choices
     IN /\ Len(choices) = Cardinality(wanted)
        /\ \A i \in DOMAIN choices :
             \E p \in wanted : choices[i] = <<Str(p), Str(p)>>
        /\ \A i \in DOMAIN choices, j \in DOMAIN choices :
             i < j => choices[i][1][2] < choices[j][1][2]
        /\ \A i \in DOMAIN choices : choices[i][1][2] \notin form.retracted

\* make_form was given a retracted schema, named in the allowed versions
\* beside a version of another schema, and offered the other version alone
C14_Witness ==
  /\ form.fn = "make_form"
  /\ form.show_metadata
  /\ form.out.raised = "None"
  /\ form.schema_arg = 1
  /\ form.retracted = {1}
  /\ form.allowed_versions = <<3, 1>>
  /\ form.formdata = ("ofmetadata_-version" :> Str(2))
  /\ form.out.version_choices = << <<Str(2), Str(2)>> >>

\* C19 as stated: the field of a string, collection-choice or number
\* attribute has a Length / NumberRange validator if and only if value_min
\* or value_max is not None, 0 included; a number attribute with value_min
\* = 0 and no value_max rejects negative numbers.
C19_BoundValidatorIffSet ==
  (/\ form.fn = "make_field"
   /\ \/ form.attribute.type \in {"string", "number"}
      \/ (form.attribute.type = "choice" /\ form.attribute.is_collection))
  => /\ (\E i \in DOMAIN form.field.validators :
            form.field.validators[i].kind \in {"Length", "NumberRange"})
        <=> (form.attribute.value_min # NoneN \/ form.attribute.value_max # NoneN)
     /\ (/\ form.attribute.type = "number"
         /\ form.attribute.value_min = 0
         /\ form.attribute.value_max = NoneN
         /\ form.x < 0)
          => ~form.accepted

\* C20: the choices of a choice field begin with the blank option exactly
\* when the attribute has more than 10 options and is not a collection;
\* the options follow in the attribute's order.
C20_BlankOption ==
  (form.fn = "make_field" /\ form.attribute.type = "choice")
  => LET n == form.attribute.nchoices
         blank == n > 10 /\ ~form.attribute.is_collection
         choices == form.field.choices
         offset == IF blank THEN 1 ELSE 0
     IN /\ Len(choices) = n + offset
        /\ blank => choices[1] = << <<>>, <<>> >>
        /\ \A i \in 1..n :
             /\ choices[i + offset][1] = <<"c", n + 1 - i>>
             /\ choices[i + offset][1] # <<>>

\* a single choice with more than 10 options got the blank option first
C20_Witness ==
  /\ form.fn = "make_field"
  /\ form.attribute.type = "choice"
  /\ ~form.attribute.is_collection
  /\ form.attribute.nchoices = 11
  /\ Len(form.field.choices) = 12
  /\ form.field.choices[1] = << <<>>, <<>> >>

\* C21: the flags render_form hands to the renderer are booleans;
\* metadata_disabled is (disabled or the entity's state is complete),
\* fields_disabled is (disabled or metadata_disabled or the entity's
\* not_done is set); metadata_disabled implies fields_disabled, and with no
\* entity both equal the disabled argument.
C21_DisabledFlags ==
  form.fn = "render_form"
  => LET md == form.out.metadata_disabled
         fd == form.out.fields_disabled
         complete == form.entity.present /\ form.entity.state = COMPLETE
         not_collected == form.entity.present
                          /\ form.entity.not_done = [t |-> "bool", v |-> TRUE]
     IN /\ md.t = "bool" /\ md.v \in BOOLEAN
        /\ fd.t = "bool" /\ fd.v \in BOOLEAN
        /\ md.v = (form.disabled \/ complete)
        /\ fd.v = (form.disabled \/ md.v \/ not_collected)
        /\ md.v => fd.v
        /\ ~form.entity.present => (md.v = form.disabled /\ fd.v = form.disabled)

\* render_form was called, not disabled, for an entity in pending-review
\* marked not collected: only the fields are disabled
C21_Witness ==
  /\ form.fn = "render_form"
  /\ ~form.disabled
  /\ form.entity.present
  /\ form.entity.state = PENDING_REVIEW
  /\ form.entity.not_done = [t |-> "bool", v |-> TRUE]
  /\ form.out.metadata_disabled = [t |-> "bool", v |-> FALSE]
  /\ form.out.fields_disabled = [t |-> "bool", v |-> TRUE]

\* validate accepts record d for an entity in state previous without
\* validating the attribute fields, for some outcome of the sub-forms'
\* own validation
Bypassed(d, previous) ==
  \E workflow_ok \in BOOLEAN, metadata_ok \in BOOLEAN, fields_ok \in BOOLEAN :
    LET has_workflow == "ofworkflow_" \in DOMAIN d
        has_metadata == "ofmetadata_" \in DOMAIN d
        out == validate(previous, has_workflow,
                        IF has_workflow THEN d["ofworkflow_"].state ELSE "",
                        workflow_ok, has_metadata,
                        IF has_metadata THEN d["ofmetadata_"].not_done ELSE FALSE,
                        metadata_ok, fields_ok)
    IN out.raised = "None" /\ out.status /\ "fields" \notin out.ran

\* C22: a record that validate accepts without validating the attribute
\* fields (pending-entry chosen, entity complete, or not_done set) is
\* applied by apply_data in one step without file I/O, and every leaf of
\* the entity ends empty or as it was: no submitted value is stored.
C22_UnvalidatedNeverStored ==
  [][(pc = "idle" /\ op' = "apply" /\ Bypassed(data', state))
       => (/\ pc' = "idle"
           /\ fs' = fs
           /\ \A n \in LeafNames : values'[n] \in {NoneV, values[n]})]_vars

\* a record marked not collected that carries a value for "a" was accepted
\* without field validation and applied to an entity in pending-review:
\* "a" is empty, not the submitted value
C22_Witness ==
  /\ pc = "idle"
  /\ op = "apply"
  /\ upload_path # NoPath
  /\ result = "ok"
  /\ previous_state = PENDING_REVIEW
  /\ Bypassed(data, previous_state)
  /\ "ofmetadata_" \in DOMAIN data
  /\ data["ofmetadata_"].not_done
  /\ "a" \in DOMAIN data
  /\ data["a"] = Scalar(1)
  /\ values["a"] = NoneV

====
